---- MODULE Spec2Model ----
(***************************************************************************)
(* A model of the sunny time-series store: the ordered in-memory series    *)
(* (sunny_db/src/timeseries.rs), the segment store built on it             *)
(* (sunny_db/src/timeseries_db.rs) and the statistics layer                *)
(* (sunny_db/src/statistics.rs).                                           *)
(*                                                                         *)
(* Timestamps are milliseconds since the epoch (u64).  Option<timestamp>   *)
(* is an integer with NoTime standing for None: Rust orders None below     *)
(* every Some(t), and NoTime is below every timestamp, so the comparisons  *)
(* of two Options in the source are integer comparisons here.              *)
(* A sample value is the serial number of the insert that produced it, so  *)
(* that two samples are never confused.                                    *)
(***************************************************************************)
EXTENDS Integers, Sequences, FiniteSets, TLC

VARIABLES
    time_series,             \* SunnyDB.time_series: the live buffer
    time_series_cache_size,  \* SunnyDB.time_series_cache_size (flush threshold)
    data_loss_threshold,     \* SunnyDB.data_loss_threshold
    files,                   \* the data directory: file name -> file bytes
    now,                     \* the wall clock, SystemTime::now() in ms
    inserted,                \* number of samples handed to insert so far
    panicked,                \* the process has aborted (panic!)
    last,                    \* the last call: its name, arguments and result,
                             \* the buffer and directory it started from, and
                             \* the names of the files it wrote
    tasks                    \* main.rs: the tasks sharing the store and the
                             \* RwLock around it

vars == <<time_series, time_series_cache_size, data_loss_threshold, files,
          now, inserted, panicked, last, tasks>>

(***************************************************************************)
(* Bounds of the model.                                                    *)
(***************************************************************************)
MaxTime == 4        \* series layer: timestamps and query bounds are 0..MaxTime
MaxLen == 4         \* series layer: at most MaxLen entries in a series
NumReaders == 2     \* query handlers running at the same time

(***************************************************************************)
(* The tasks of main.rs before any of them has run: the ingestion task     *)
(* sleeps, no handler serves a request, no shutdown signal has arrived,    *)
(* and nobody holds the RwLock.  Where the store is used by one caller     *)
(* alone the tasks stay in this state.                                     *)
(***************************************************************************)
Readers == 1..NumReaders

ServerIdle ==
    [writer   |-> "sleeping",
     readers  |-> [r \in Readers |-> "idle"],
     shutdown |-> "running",
     lock     |-> [writer |-> "none", readers |-> {}]]

(***************************************************************************)
(* Option values.                                                          *)
(***************************************************************************)
NoTime == -1        \* Option<timestamp>::None
NoIndex == -1       \* Option<usize>::None

unwrap_or(opt, default) == IF opt = NoIndex THEN default ELSE opt

Min2(a, b) == IF a <= b THEN a ELSE b

Max2(a, b) == IF a <= b THEN b ELSE a

(***************************************************************************)
(* TimeSeries<T>  (timeseries.rs, struct TinyTimeSeries)                   *)
(***************************************************************************)
TimeSeriesEntry(time, value) == [system_time |-> time, value |-> value]

TimeSeriesNew(init_size) ==
    [init_size |-> init_size, data |-> <<>>,
     start_time |-> NoTime, end_time |-> NoTime]

TimeSeriesEmpty == TimeSeriesNew(0)

is_empty(s) == s.start_time = NoTime \/ s.data = <<>>

unix_timestamps_as_millis(s) == [i \in 1..Len(s.data) |-> s.data[i].system_time]

\* rposition(|e| e.system_time <= time): the last 0-based index holding an
\* entry at or before `time`, or None.
rposition_le(data, time) ==
    LET hits == {i \in 1..Len(data) : data[i].system_time <= time}
    IN  IF hits = {} THEN NoIndex
        ELSE (CHOOSE i \in hits : \A j \in hits : j <= i) - 1

\* a variant that stops before the entries at `time` (< for <=)
find_last_index_before_time(s, time) ==
    IF s.start_time = NoTime THEN NoIndex
    ELSE IF time < s.start_time THEN NoIndex
    ELSE IF s.end_time = NoTime THEN NoIndex
    ELSE IF time > s.end_time THEN NoIndex
    ELSE LET idx == rposition_le(s.data, time - 1)
         IN  IF idx = NoIndex THEN NoIndex ELSE idx + 1

\* `time < self.start_time? || time > self.end_time?` returns None from the
\* function when a cached bound is None; otherwise rposition(..).map(idx + 1).
find_last_index_after_time(s, time) ==
    IF s.start_time = NoTime THEN NoIndex
    ELSE IF time < s.start_time THEN NoIndex
    ELSE IF s.end_time = NoTime THEN NoIndex
    ELSE IF time > s.end_time THEN NoIndex
    ELSE LET idx == rposition_le(s.data, time)
         IN  IF idx = NoIndex THEN NoIndex ELSE idx + 1

\* a variant that keeps the first cached start and never lowers it
update_start_and_end_keeping_start(s, time) ==
    [s EXCEPT
        !.start_time = IF @ = NoTime THEN time ELSE @,
        !.end_time   = IF @ = NoTime THEN time ELSE IF @ < time THEN time ELSE @]

update_start_and_end(s, time) ==
    [s EXCEPT
        !.start_time = IF @ = NoTime THEN time ELSE IF @ > time THEN time ELSE @,
        !.end_time   = IF @ = NoTime THEN time ELSE IF @ < time THEN time ELSE @]

\* Vec::insert(idx, e) puts e at 0-based position idx; Vec::push appends.
VecInsert(data, idx, e) ==
    SubSeq(data, 1, idx) \o <<e>> \o SubSeq(data, idx + 1, Len(data))

insert_entry(s, entry) ==
    LET index == find_last_index_after_time(s, entry.system_time)
        data  == IF index # NoIndex THEN VecInsert(s.data, index, entry)
                 ELSE Append(s.data, entry)
    IN  update_start_and_end([s EXCEPT !.data = data], entry.system_time)

insert_value_at_time(s, time, value) == insert_entry(s, TimeSeriesEntry(time, value))

(***************************************************************************)
(* Results: Option<TimeSeries> with a third outcome, a panic.              *)
(***************************************************************************)
None == [tag |-> "None", ts |-> TimeSeriesEmpty]
Some(s) == [tag |-> "Some", ts |-> s]
Panic == [tag |-> "Panic", ts |-> TimeSeriesEmpty]

\* TimeSeries::get_values_in_range.  start_time.unwrap() panics on None;
\* the slice data[start_index..end_index] panics when start_index > end_index.
series_get_values_in_range(s, start_time, end_time) ==
    IF s.data = <<>> THEN None
    ELSE IF s.start_time = NoTime THEN Panic
    ELSE IF end_time < s.start_time THEN None
    ELSE LET start_index == unwrap_or(find_last_index_after_time(s, start_time), 0)
             end_index   == unwrap_or(find_last_index_after_time(s, end_time), Len(s.data))
         IN  IF start_index > end_index THEN Panic
             ELSE LET data == SubSeq(s.data, start_index + 1, end_index)
                  IN  IF data = <<>> THEN None
                      ELSE Some([init_size  |-> Len(data),
                                 data       |-> data,
                                 start_time |-> data[1].system_time,
                                 end_time   |-> data[Len(data)].system_time])

\* TimeSeries::append: the result is Some(self after the call) or a panic.
append(self, t) ==
    IF is_empty(t) THEN Some(self)
    ELSE IF self.start_time > t.start_time THEN Panic
    ELSE IF self.end_time > t.end_time THEN Panic
    ELSE Some([self EXCEPT !.end_time  = t.end_time,
                           !.init_size = @ + t.init_size,
                           !.data      = @ \o t.data])

(***************************************************************************)
(* Text.  A string is the sequence of its bytes; file names are compared   *)
(* as the source compares them, byte by byte.                              *)
(***************************************************************************)
Dash == 45          \* '-'
Zero == 48          \* '0'
Nine == 57          \* '9'

\* format!("{}", n) for an unsigned integer
RECURSIVE format_u64(_)
format_u64(n) ==
    IF n < 10 THEN <<Zero + n>>
    ELSE format_u64(n \div 10) \o <<Zero + (n % 10)>>

IsDigits(str) == str # <<>> /\ \A i \in 1..Len(str) : Zero <= str[i] /\ str[i] <= Nine

\* str.parse::<u64>() of a string of digits
RECURSIVE parse_u64(_)
parse_u64(str) ==
    IF Len(str) = 1 THEN str[1] - Zero
    ELSE 10 * parse_u64(SubSeq(str, 1, Len(str) - 1)) + (str[Len(str)] - Zero)

\* format!("{}-{}", start, end)
file_name_of(start, end) == format_u64(start) \o <<Dash>> \o format_u64(end)

\* Ordering of two paths in one directory: lexicographic on the bytes
RECURSIVE PathLess(_, _)
PathLess(a, b) ==
    IF a = <<>> THEN b # <<>>
    ELSE IF b = <<>> THEN FALSE
    ELSE IF a[1] # b[1] THEN a[1] < b[1]
    ELSE PathLess(Tail(a), Tail(b))

\* files.sort_by(|f1, f2| f1.path().cmp(&f2.path())) over the names of a directory
RECURSIVE SortedNames(_)
SortedNames(names) ==
    IF names = {} THEN <<>>
    ELSE LET first == CHOOSE n \in names : \A m \in names \ {n} : PathLess(n, m)
         IN  <<first>> \o SortedNames(names \ {first})

(***************************************************************************)
(* Encoding of a series into the bytes of a segment file, and back.        *)
(* The serialised form lists the fields in declaration order; the          *)
(* compressed frame carries a magic number and the length of its payload,  *)
(* and a frame that is cut short or does not start with the magic number   *)
(* does not decode.                                                        *)
(***************************************************************************)
ZstdMagic == 40     \* 0x28, the first byte of a zstd frame (magic 0xFD2FB528, little-endian)

\* A sample that is not a finite number (f64::INFINITY); the samples of the
\* model are integers, and this one stands outside their range.
Infinity == -2

\* serde_json writes null for None and for a float that is not finite
JsonNull == NoTime

\* serde_json::to_string of an f64 sample
json_f64(v) == IF v = Infinity THEN JsonNull ELSE v

\* serde_json::from_str reads null into an Option, and rejects it for an f64
HasNullSample(words) == \E i \in 1..Len(words) : i % 2 = 0 /\ words[i] = JsonNull

RECURSIVE EncodeEntries(_)
EncodeEntries(data) ==
    IF data = <<>> THEN <<>>
    ELSE <<Head(data).system_time, json_f64(Head(data).value)>> \o EncodeEntries(Tail(data))

RECURSIVE DecodeEntries(_)
DecodeEntries(words) ==
    IF Len(words) < 2 THEN <<>>
    ELSE <<TimeSeriesEntry(words[1], words[2])>> \o DecodeEntries(SubSeq(words, 3, Len(words)))

serialize(s) ==
    <<s.init_size, Len(s.data)>> \o EncodeEntries(s.data) \o <<s.start_time, s.end_time>>

zstd_encode_all(payload, level) == <<ZstdMagic, Len(payload)>> \o payload

to_compressed_json(s, level) == zstd_encode_all(serialize(s), level)

DecodeError == [tag |-> "Err", ts |-> TimeSeriesEmpty]

from_compressed_json(bytes) ==
    IF Len(bytes) < 2 THEN DecodeError
    ELSE IF bytes[1] # ZstdMagic \/ bytes[2] # Len(bytes) - 2 THEN DecodeError
    ELSE LET payload == SubSeq(bytes, 3, Len(bytes))
         IN  IF Len(payload) < 4 THEN DecodeError
             ELSE IF Len(payload) # 4 + 2 * payload[2] THEN DecodeError
             ELSE IF HasNullSample(SubSeq(payload, 3, Len(payload) - 2)) THEN DecodeError
             ELSE [tag |-> "Ok",
                   ts  |-> [init_size  |-> payload[1],
                            data       |-> DecodeEntries(SubSeq(payload, 3, Len(payload) - 2)),
                            start_time |-> payload[Len(payload) - 1],
                            end_time   |-> payload[Len(payload)]]]

(***************************************************************************)
(* The data directory: a set of files [name, bytes], one per name.         *)
(***************************************************************************)
CompressionLevel == 2    \* the level main.rs constructs the store with

FileNames(dir) == {f.name : f \in dir}

FileBytes(dir, name) == (CHOOSE f \in dir : f.name = name).bytes

\* File::create(path) followed by write_all(bytes): a file of that name is
\* truncated and rewritten, otherwise created.
file_create_and_write(dir, name, bytes) ==
    {f \in dir : f.name # name} \cup {[name |-> name, bytes |-> bytes]}

\* SunnyDB::parse_filename_to_times: <<start, end>> or <<>> for a name that
\* is not two integers around one dash.
parse_filename_to_times(name) ==
    LET dashes == {i \in 1..Len(name) : name[i] = Dash}
    IN  IF Cardinality(dashes) # 1 THEN <<>>
        ELSE LET d == CHOOSE i \in dashes : TRUE
                 left  == SubSeq(name, 1, d - 1)
                 right == SubSeq(name, d + 1, Len(name))
             IN  IF IsDigits(left) /\ IsDigits(right)
                 THEN <<parse_u64(left), parse_u64(right)>>
                 ELSE <<>>

\* files.iter().map(parse_filename_to_times).flatten().collect()
RECURSIVE ParseAll(_)
ParseAll(names) ==
    IF names = <<>> THEN <<>>
    ELSE LET seg == parse_filename_to_times(Head(names))
         IN  (IF seg = <<>> THEN <<>> ELSE <<seg>>) \o ParseAll(Tail(names))

\* SunnyDB::parse_segment_to_timeseries: the file is looked up under the name
\* formatted again from the two integers.
parse_segment_to_timeseries(dir, segment) ==
    LET name == file_name_of(segment[1], segment[2])
    IN  IF name \notin FileNames(dir) THEN DecodeError
        ELSE from_compressed_json(FileBytes(dir, name))

\* .position(|(seg1, seg2)| seg1.0 <= time && time <= seg2.1) over the pairs of
\* consecutive segments; the 0-based index of the first such pair, or None.
pair_position(segments, time) ==
    LET hits == {i \in 1..Len(segments) - 1 :
                    segments[i][1] <= time /\ time <= segments[i + 1][2]}
    IN  IF hits = {} THEN NoIndex
        ELSE (CHOOSE i \in hits : \A j \in hits : i <= j) - 1

\* a variant that never moves on to the later segment of the pair
shift_index_never(segments, idx, time) == idx

\* match index { None => None, Some(idx) => if segments[idx].1 < time .. }
shift_index(segments, idx, time) ==
    IF idx = NoIndex THEN NoIndex
    ELSE IF segments[idx + 1][2] < time THEN idx + 1
    ELSE idx

\* SunnyDB::find_persisted_segment_index: <<start index, end index>>
find_persisted_segment_index(segments, start_time, end_time) ==
    IF segments = <<>> THEN <<NoIndex, NoIndex>>
    ELSE IF end_time < segments[1][1] THEN <<NoIndex, NoIndex>>
    ELSE LET first_segment == segments[1]
             last_segment  == segments[Len(segments)]
             start_segment_index ==
                 IF start_time < first_segment[1] THEN 0
                 ELSE shift_index(segments, pair_position(segments, start_time), start_time)
             end_segment_index ==
                 IF end_time > last_segment[2] THEN Len(segments) - 1
                 ELSE shift_index(segments, pair_position(segments, end_time), end_time)
         IN  <<start_segment_index, end_segment_index>>

\* .map(parse_segment_to_timeseries).flatten().collect(): failed loads are dropped
RECURSIVE LoadAll(_, _)
LoadAll(dir, segments) ==
    IF segments = <<>> THEN <<>>
    ELSE LET r == parse_segment_to_timeseries(dir, Head(segments))
         IN  (IF r.tag = "Ok" THEN <<r.ts>> ELSE <<>>) \o LoadAll(dir, Tail(segments))

\* Option<TimeSeries>::unwrap_or(TimeSeries::empty()); a panic stays a panic
or_empty(res) == IF res.tag = "None" THEN Some(TimeSeriesEmpty) ELSE res

\* for t in list { t0.append(t) } on a result that may already be a panic
RECURSIVE AppendAll(_, _)
AppendAll(acc, list) ==
    IF acc.tag = "Panic" \/ list = <<>> THEN acc
    ELSE AppendAll(append(acc.ts, Head(list)), Tail(list))

\* d.append(&t) where either side may already be a panic
append_results(d, t) ==
    IF d.tag = "Panic" \/ t.tag = "Panic" THEN Panic ELSE append(d.ts, t.ts)

\* read_persisted_data, from the loaded segments on: one segment is
\* restricted to the range; of several, the first and the last are restricted
\* and the ones between are appended whole.
stitch_segments(ts, start_time, end_time) ==
    IF ts = <<>> THEN None
    ELSE IF Len(ts) = 1 THEN series_get_values_in_range(ts[1], start_time, end_time)
    ELSE append_results(
             AppendAll(or_empty(series_get_values_in_range(ts[1], start_time, end_time)),
                       SubSeq(ts, 2, Len(ts) - 1)),
             or_empty(series_get_values_in_range(ts[Len(ts)], start_time, end_time)))

\* read_persisted_data, from the segment indices on: the slice
\* segments[actual_start_index..actual_end_index] panics when it is out of range
\* (start_index and end_index are the two actual_ indices).
load_segment_range(dir, segments, start_index, end_index, start_time, end_time) ==
    IF start_index > end_index \/ end_index > Len(segments)
    THEN Panic
    ELSE stitch_segments(
             LoadAll(dir, SubSeq(segments, start_index + 1, end_index)),
             start_time, end_time)

\* read_persisted_data, from the parsed segment list on
read_segments(dir, n_files, segments, found, start_time, end_time) ==
    IF found[1] = NoIndex /\ found[2] = NoIndex THEN None
    ELSE load_segment_range(dir, segments,
                            unwrap_or(found[1], 0),
                            unwrap_or(found[2], n_files - 1) + 1,
                            start_time, end_time)

read_sorted_files(dir, names, segments, start_time, end_time) ==
    read_segments(dir, Len(names), segments,
                  find_persisted_segment_index(segments, start_time, end_time),
                  start_time, end_time)

read_files(dir, names, start_time, end_time) ==
    read_sorted_files(dir, names, ParseAll(names), start_time, end_time)

\* SunnyDB::read_persisted_data
read_persisted_data(dir, start_time, end_time) ==
    read_files(dir, SortedNames(FileNames(dir)), start_time, end_time)

\* get_values_in_range, after the persisted data has been read
merge_with_buffer(buffer, read_data, start_time, end_time) ==
    IF buffer.start_time > end_time THEN read_data
    ELSE IF read_data.tag = "None"
         THEN or_empty(series_get_values_in_range(buffer, start_time, end_time))
    ELSE append_results(read_data,
                        or_empty(series_get_values_in_range(buffer, start_time, end_time)))

\* a variant without the shortcut: the persisted data is always read
get_values_in_range_reading(buffer, dir, start_time, end_time) ==
    merge_with_buffer(buffer, read_persisted_data(dir, start_time, end_time),
                      start_time, end_time)

\* SunnyDB::get_values_in_range, after the swap of reversed bounds
get_values_in_range_ordered(buffer, dir, start_time, end_time) ==
    IF buffer.start_time # NoTime /\ buffer.start_time <= start_time
    THEN series_get_values_in_range(buffer, start_time, end_time)
    ELSE merge_with_buffer(buffer, read_persisted_data(dir, start_time, end_time),
                           start_time, end_time)

\* a variant that takes the bounds as they come
get_values_in_range_unswapped(buffer, dir, start_time, end_time) ==
    get_values_in_range_ordered(buffer, dir, start_time, end_time)

\* SunnyDB::get_values_in_range: reversed bounds are swapped first
get_values_in_range(buffer, dir, start_time, end_time) ==
    get_values_in_range_ordered(buffer, dir,
                                Min2(start_time, end_time), Max2(start_time, end_time))

\* SunnyDB::get_all_values
get_all_values(buffer, dir, clock) ==
    get_values_in_range(buffer, dir, 0,
                        IF buffer.end_time = NoTime THEN clock ELSE buffer.end_time)

(***************************************************************************)
(* The series layer on its own: a caller inserts at explicit timestamps    *)
(* in any order and extracts ranges (SunnyDB.time_series is a pub field).  *)
(***************************************************************************)
NoCall == [op |-> "none", a |-> 0, b |-> 0, res |-> None,
           pre |-> TimeSeriesEmpty, pre_files |-> {}, writes |-> <<>>]

InitSeries ==
    /\ time_series = TimeSeriesNew(MaxLen)
    /\ time_series_cache_size = MaxLen
    /\ data_loss_threshold = 0
    /\ files = {}
    /\ now = 0
    /\ inserted = 0
    /\ panicked = FALSE
    /\ last = NoCall
    /\ tasks = ServerIdle

SeriesInsert(time) ==
    /\ Len(time_series.data) < MaxLen
    /\ time_series' = insert_value_at_time(time_series, time, inserted + 1)
    /\ inserted' = inserted + 1
    /\ last' = [op |-> "insert_value_at_time", a |-> time, b |-> inserted + 1,
                res |-> None, pre |-> time_series, pre_files |-> files, writes |-> <<>>]
    /\ UNCHANGED <<time_series_cache_size, data_loss_threshold, files, now, panicked, tasks>>

SeriesRange(start_time, end_time) ==
    /\ last' = [op |-> "series_get_values_in_range", a |-> start_time, b |-> end_time,
                res |-> series_get_values_in_range(time_series, start_time, end_time),
                pre |-> time_series, pre_files |-> files, writes |-> <<>>]
    /\ UNCHANGED <<time_series, time_series_cache_size, data_loss_threshold,
                   files, now, inserted, panicked, tasks>>

NextSeries ==
    \/ \E time \in 0..MaxTime : SeriesInsert(time)
    \/ \E start_time \in 0..MaxTime, end_time \in 0..MaxTime :
          SeriesRange(start_time, end_time)

SpecSeries == InitSeries /\ [][NextSeries]_vars

MaxAppended == 6    \* entries in the result of an append

\* TinyTimeSeries::append, used as SunnyDB::read_persisted_data uses it: the
\* receiver is the series the previous call returned (an empty series when
\* it returned none), the argument is the series under test.
SeriesAppend ==
    /\ last.res.tag # "Panic"
    /\ Len(or_empty(last.res).ts.data) + Len(time_series.data) <= MaxAppended
    /\ last' = [op |-> "append", a |-> 0, b |-> 0,
                res |-> append(or_empty(last.res).ts, time_series),
                pre |-> or_empty(last.res).ts, pre_files |-> files, writes |-> <<>>]
    /\ panicked' = (last'.res.tag = "Panic")
    /\ UNCHANGED <<time_series, time_series_cache_size, data_loss_threshold,
                   files, now, inserted, tasks>>

\* a panic ends the run
NextSeriesOps ==
    /\ ~panicked
    /\ \/ NextSeries
       \/ SeriesAppend

SpecSeriesOps == InitSeries /\ [][NextSeriesOps]_vars

(***************************************************************************)
(* The store.  A fresh store over an empty data directory; the caller      *)
(* inserts at the wall-clock time, persists lossily and queries.  The      *)
(* wall clock advances between calls (Tick) and never within one; it does  *)
(* not step backwards, and two calls may fall in the same millisecond.     *)
(* File creation and writing succeed.                                      *)
(***************************************************************************)
StartClock == 8     \* the wall clock when the store is constructed
MaxClock == 10      \* the wall clock stops advancing here
MaxInserts == 4     \* samples inserted in one run
MaxCache == 3       \* time_series_cache_size is drawn from 0..MaxCache
MaxLoss == 2        \* data_loss_threshold is drawn from 0..MaxLoss

\* query bounds: from before the first sample to after the last
QueryTimes == (StartClock - 1)..(MaxClock + 1)

\* SunnyDB::export_time_series_to_file: the directory afterwards, and whether
\* the call panicked (.expect on a buffer without start or end time).
export_time_series_to_file(buffer, dir) ==
    IF buffer.start_time = NoTime \/ buffer.end_time = NoTime
    THEN [panic |-> TRUE, dir |-> dir, writes |-> <<>>]
    ELSE LET file_name == file_name_of(buffer.start_time, buffer.end_time)
         IN  [panic  |-> FALSE,
              dir    |-> file_create_and_write(dir, file_name,
                             to_compressed_json(buffer, CompressionLevel)),
              writes |-> <<file_name>>]

\* dump_time_series_if_full flushing only above the threshold (> for >=)
dump_time_series_if_full_above(buffer, dir, cache_size) ==
    IF Len(buffer.data) > cache_size
    THEN export_time_series_to_file(buffer, dir) @@ [buffer |-> TimeSeriesNew(cache_size)]
    ELSE [panic |-> FALSE, dir |-> dir, writes |-> <<>>, buffer |-> buffer]

\* dump_time_series_if_full without the reset of the buffer after the export
dump_time_series_if_full_keeping(buffer, dir, cache_size) ==
    IF Len(buffer.data) >= cache_size
    THEN export_time_series_to_file(buffer, dir) @@ [buffer |-> buffer]
    ELSE [panic |-> FALSE, dir |-> dir, writes |-> <<>>, buffer |-> buffer]

\* SunnyDB::dump_time_series_if_full
dump_time_series_if_full(buffer, dir, cache_size) ==
    IF Len(buffer.data) >= cache_size
    THEN export_time_series_to_file(buffer, dir) @@ [buffer |-> TimeSeriesNew(cache_size)]
    ELSE [panic |-> FALSE, dir |-> dir, writes |-> <<>>, buffer |-> buffer]

\* lossy_persist writing at the threshold too (<= for <)
lossy_persist_at_threshold(buffer, dir, loss_threshold) ==
    IF loss_threshold <= Len(buffer.data)
    THEN export_time_series_to_file(buffer, dir) @@ [buffer |-> buffer]
    ELSE [panic |-> FALSE, dir |-> dir, writes |-> <<>>, buffer |-> buffer]

\* lossy_persist emptying the buffer after the export, as a flush does
lossy_persist_clearing(buffer, dir, loss_threshold) ==
    IF loss_threshold < Len(buffer.data)
    THEN export_time_series_to_file(buffer, dir) @@ [buffer |-> TimeSeriesNew(0)]
    ELSE [panic |-> FALSE, dir |-> dir, writes |-> <<>>, buffer |-> buffer]

\* SunnyDB::lossy_persist
lossy_persist(buffer, dir, loss_threshold) ==
    IF loss_threshold < Len(buffer.data)
    THEN export_time_series_to_file(buffer, dir) @@ [buffer |-> buffer]
    ELSE [panic |-> FALSE, dir |-> dir, writes |-> <<>>, buffer |-> buffer]

Init ==
    /\ time_series_cache_size \in 0..MaxCache
    /\ data_loss_threshold \in 0..MaxLoss
    /\ time_series = TimeSeriesNew(time_series_cache_size)
    /\ files = {}
    /\ now = StartClock
    /\ inserted = 0
    /\ panicked = FALSE
    /\ last = NoCall
    /\ tasks = ServerIdle

Tick ==
    /\ ~panicked
    /\ now < MaxClock
    /\ now' = now + 1
    /\ UNCHANGED <<time_series, time_series_cache_size, data_loss_threshold,
                   files, inserted, panicked, last, tasks>>

\* SunnyDB::insert_value_at_current_time
Insert ==
    /\ ~panicked
    /\ inserted < MaxInserts
    /\ LET value == inserted + 1
           r == dump_time_series_if_full(
                    insert_value_at_time(time_series, now, value),
                    files, time_series_cache_size)
       IN  /\ time_series' = r.buffer
           /\ files' = r.dir
           /\ panicked' = r.panic
           /\ last' = [op |-> "insert_value_at_current_time", a |-> now, b |-> value,
                       res |-> None, pre |-> time_series, pre_files |-> files, writes |-> r.writes]
    /\ inserted' = inserted + 1
    /\ UNCHANGED <<time_series_cache_size, data_loss_threshold, now, tasks>>

LossyPersist ==
    /\ ~panicked
    /\ LET r == lossy_persist(time_series, files, data_loss_threshold)
       IN  /\ time_series' = r.buffer
           /\ files' = r.dir
           /\ panicked' = r.panic
           /\ last' = [op |-> "lossy_persist", a |-> 0, b |-> 0,
                       res |-> None, pre |-> time_series, pre_files |-> files, writes |-> r.writes]
    /\ UNCHANGED <<time_series_cache_size, data_loss_threshold, now, inserted, tasks>>

GetValuesInRange(start_time, end_time) ==
    /\ ~panicked
    /\ last' = [op |-> "get_values_in_range", a |-> start_time, b |-> end_time,
                res |-> get_values_in_range(time_series, files, start_time, end_time),
                pre |-> time_series, pre_files |-> files, writes |-> <<>>]
    /\ panicked' = (last'.res.tag = "Panic")
    /\ UNCHANGED <<time_series, time_series_cache_size, data_loss_threshold,
                   files, now, inserted, tasks>>

\* a variant that hands the buffer over to the caller and starts a new one
GetAllValuesDraining ==
    /\ ~panicked
    /\ last' = [op |-> "get_all_values", a |-> 0, b |-> now,
                res |-> get_all_values(time_series, files, now),
                pre |-> time_series, pre_files |-> files, writes |-> <<>>]
    /\ panicked' = (last'.res.tag = "Panic")
    /\ time_series' = TimeSeriesNew(time_series_cache_size)
    /\ UNCHANGED <<time_series_cache_size, data_loss_threshold,
                   files, now, inserted, tasks>>

GetAllValues ==
    /\ ~panicked
    /\ last' = [op |-> "get_all_values", a |-> 0, b |-> now,
                res |-> get_all_values(time_series, files, now),
                pre |-> time_series, pre_files |-> files, writes |-> <<>>]
    /\ panicked' = (last'.res.tag = "Panic")
    /\ UNCHANGED <<time_series, time_series_cache_size, data_loss_threshold,
                   files, now, inserted, tasks>>

Next ==
    \/ Tick
    \/ Insert
    \/ LossyPersist
    \/ \E start_time \in QueryTimes, end_time \in QueryTimes :
          GetValuesInRange(start_time, end_time)
    \/ GetAllValues

Spec == Init /\ [][Next]_vars

\* Ingestion only: a fresh store that is inserted into and queried, and
\* never persisted lossily.
NextIngest ==
    \/ Tick
    \/ Insert
    \/ \E start_time \in QueryTimes, end_time \in QueryTimes :
          GetValuesInRange(start_time, end_time)
    \/ GetAllValues

SpecIngest == Init /\ [][NextIngest]_vars

\* SystemTime::now() is not monotonic: the wall clock may also step
\* backwards between two calls (a clock adjustment).  Writers only: the
\* store is inserted into and persisted lossily under such a clock.
ClockStepsBack ==
    /\ ~panicked
    /\ now > StartClock
    /\ now' = now - 1
    /\ UNCHANGED <<time_series, time_series_cache_size, data_loss_threshold,
                   files, inserted, panicked, last, tasks>>

NextSkew ==
    \/ Tick
    \/ ClockStepsBack
    \/ Insert
    \/ LossyPersist

SpecSkew == Init /\ [][NextSkew]_vars

\* Names that parse_filename_to_times rejects: "-" (two parts, neither an
\* integer), "99" (one part) and "0-0-0" (three parts).
ForeignNames == {<<Dash>>, <<Nine, Nine>>, <<Zero, Dash, Zero, Dash, Zero>>}

\* A store constructed over a data directory that already holds one file
\* that is not a segment; create_dir_all and the permission check of
\* init_directory leave such a file in place.
InitForeign ==
    /\ time_series_cache_size \in 0..MaxCache
    /\ data_loss_threshold \in 0..MaxLoss
    /\ time_series = TimeSeriesNew(time_series_cache_size)
    /\ files \in {{[name |-> n, bytes |-> <<>>]} : n \in ForeignNames}
    /\ now = StartClock
    /\ inserted = 0
    /\ panicked = FALSE
    /\ last = NoCall
    /\ tasks = ServerIdle

SpecForeign == InitForeign /\ [][NextIngest]_vars

(***************************************************************************)
(* Construction.  SunnyDB::new runs over a data directory that may hold    *)
(* the files of an earlier run: segments, a file that is no segment, and   *)
(* a permission-check file that an earlier, aborted start left behind.     *)
(* Creating the directory, creating the permission-check file and removing *)
(* it may each fail, and each failure panics.                              *)
(***************************************************************************)
\* ".permission-check.tiny.db"
PermissionCheckName ==
    <<46, 112, 101, 114, 109, 105, 115, 115, 105, 111, 110, 45, 99, 104, 101, 99, 107, 46, 116, 105, 110, 121, 46, 100, 98>>

\* a segment written by an earlier run: one sample, taken before the clock's start
EarlierSegment ==
    [name  |-> file_name_of(StartClock - 1, StartClock - 1),
     bytes |-> to_compressed_json(
                   insert_value_at_time(TimeSeriesNew(1), StartClock - 1, 0),
                   CompressionLevel)]

\* what the data directory may hold before the store is constructed
EarlierFiles ==
    {EarlierSegment,
     [name |-> file_name_of(0, 1), bytes |-> <<ZstdMagic>>],
     [name |-> <<Dash>>, bytes |-> <<>>],
     [name |-> PermissionCheckName, bytes |-> <<Zero>>]}

InitOutcomes == {"ok", "create_dir_fails", "create_fails", "remove_fails"}

\* a variant that carries on when the permission-check file cannot be removed
init_directory_keeping(dir, io) ==
    IF io \in {"create_dir_fails", "create_fails"} THEN [panic |-> TRUE, dir |-> dir]
    ELSE IF io = "remove_fails"
         THEN [panic |-> FALSE, dir |-> file_create_and_write(dir, PermissionCheckName, <<>>)]
    ELSE [panic |-> FALSE, dir |-> {f \in dir : f.name # PermissionCheckName}]

\* SunnyDB::init_directory: create_dir_all, File::create of the
\* permission-check file (truncating one that exists), remove_file
init_directory(dir, io) ==
    IF io \in {"create_dir_fails", "create_fails"} THEN [panic |-> TRUE, dir |-> dir]
    ELSE IF io = "remove_fails"
         THEN [panic |-> TRUE, dir |-> file_create_and_write(dir, PermissionCheckName, <<>>)]
    ELSE [panic |-> FALSE, dir |-> {f \in dir : f.name # PermissionCheckName}]

\* before SunnyDB::new: no store yet, the directory as an earlier run left it
InitNew ==
    /\ time_series_cache_size \in 0..MaxCache
    /\ data_loss_threshold \in 0..MaxLoss
    /\ time_series = TimeSeriesEmpty
    /\ files \in SUBSET EarlierFiles
    /\ now = StartClock
    /\ inserted = 0
    /\ panicked = FALSE
    /\ last = NoCall
    /\ tasks = ServerIdle

\* SunnyDB::new
New(io) ==
    /\ ~panicked
    /\ last.op = "none"
    /\ files' = init_directory(files, io).dir
    /\ panicked' = init_directory(files, io).panic
    /\ time_series' = IF init_directory(files, io).panic THEN time_series
                      ELSE TimeSeriesNew(time_series_cache_size)
    /\ last' = [op |-> "new", a |-> 0, b |-> 0, res |-> None,
                pre |-> time_series, pre_files |-> files, writes |-> <<>>]
    /\ UNCHANGED <<time_series_cache_size, data_loss_threshold, now, inserted, tasks>>

\* the store exists once new has returned
TickAfterNew == last.op # "none" /\ Tick

InsertAfterNew == last.op # "none" /\ Insert

NextNew ==
    \/ \E io \in InitOutcomes : New(io)
    \/ TickAfterNew
    \/ InsertAfterNew

SpecNew == InitNew /\ [][NextNew]_vars

(***************************************************************************)
(* The store over a file system that may fail.  File::create may return an *)
(* error; write_all may return an error after the file has been created    *)
(* and truncated, leaving it empty or holding a prefix of the data.        *)
(***************************************************************************)
IoOutcomes == {"ok", "create_fails", "write_fails_empty", "write_fails_torn"}

\* what a failed write_all leaves in the file
written_bytes(bytes, io) ==
    IF io = "ok" THEN bytes
    ELSE IF io = "write_fails_empty" THEN <<>>
    ELSE SubSeq(bytes, 1, Len(bytes) - 1)

\* SunnyDB::export_time_series_to_file under the I/O outcome `io`: err is
\* the Err(..) it returns, panic the failed .expect on a missing start or end.
export_time_series_to_file_io(buffer, dir, io) ==
    IF buffer.start_time = NoTime \/ buffer.end_time = NoTime
    THEN [panic |-> TRUE, err |-> FALSE, dir |-> dir, writes |-> <<>>]
    ELSE IF io = "create_fails"
    THEN [panic |-> FALSE, err |-> TRUE, dir |-> dir, writes |-> <<>>]
    ELSE [panic  |-> FALSE,
          err    |-> io # "ok",
          dir    |-> file_create_and_write(dir,
                         file_name_of(buffer.start_time, buffer.end_time),
                         written_bytes(to_compressed_json(buffer, CompressionLevel), io)),
          writes |-> <<file_name_of(buffer.start_time, buffer.end_time)>>]

\* SunnyDB::dump_time_series_if_full: Err(e) => panic!
dump_after_export(r, buffer, cache_size) ==
    [panic  |-> r.panic \/ r.err, err |-> r.err, dir |-> r.dir, writes |-> r.writes,
     buffer |-> IF r.panic \/ r.err THEN buffer ELSE TimeSeriesNew(cache_size)]

dump_time_series_if_full_io(buffer, dir, cache_size, io) ==
    IF Len(buffer.data) >= cache_size
    THEN dump_after_export(export_time_series_to_file_io(buffer, dir, io), buffer, cache_size)
    ELSE [panic |-> FALSE, err |-> FALSE, dir |-> dir, writes |-> <<>>, buffer |-> buffer]

\* SunnyDB::lossy_persist: export_time_series_to_file().ok() drops the Err
lossy_persist_io(buffer, dir, loss_threshold, io) ==
    IF loss_threshold < Len(buffer.data)
    THEN export_time_series_to_file_io(buffer, dir, io) @@ [buffer |-> buffer]
    ELSE [panic |-> FALSE, err |-> FALSE, dir |-> dir, writes |-> <<>>, buffer |-> buffer]

\* what a writing call leaves behind; err records that the export returned Err
after_write(op, time, value, r) ==
    /\ time_series' = r.buffer
    /\ files' = r.dir
    /\ panicked' = r.panic
    /\ last' = [op |-> op, a |-> time, b |-> value, res |-> None, pre |-> time_series,
                pre_files |-> files, writes |-> r.writes, err |-> r.err]

InsertIO(io) ==
    /\ ~panicked
    /\ inserted < MaxInserts
    /\ after_write("insert_value_at_current_time", now, inserted + 1,
                   dump_time_series_if_full_io(
                       insert_value_at_time(time_series, now, inserted + 1),
                       files, time_series_cache_size, io))
    /\ inserted' = inserted + 1
    /\ UNCHANGED <<time_series_cache_size, data_loss_threshold, now, tasks>>

LossyPersistIO(io) ==
    /\ ~panicked
    /\ after_write("lossy_persist", 0, 0,
                   lossy_persist_io(time_series, files, data_loss_threshold, io))
    /\ UNCHANGED <<time_series_cache_size, data_loss_threshold, now, inserted, tasks>>

NextIO ==
    \/ Tick
    \/ \E io \in IoOutcomes : InsertIO(io)
    \/ \E io \in IoOutcomes : LossyPersistIO(io)
    \/ \E start_time \in QueryTimes, end_time \in QueryTimes :
          GetValuesInRange(start_time, end_time)

SpecIO == Init /\ [][NextIO]_vars

(***************************************************************************)
(* Statistics over a series of numeric samples.  The samples are integers  *)
(* and every f64 is held as a whole number of halves, so that `s * 0.5` is *)
(* exact: the number x is the integer Halves * x.                          *)
(***************************************************************************)
Halves == 2             \* 1 / 0.5
MaxSamples == 3         \* entries of a series under statistics
MaxStatTime == 3        \* sample timestamps are drawn from 0..MaxStatTime
MaxValue == 1           \* sample values are drawn from 0..MaxValue

to_f64(v) == Halves * v

\* Option<T> of a statistic; Overflow is a u64 subtraction that underflows:
\* a panic in a debug build, a wrapped difference in a release build.
NoValue == [tag |-> "None", value |-> 0]
SomeValue(x) == [tag |-> "Some", value |-> x]
PanicValue == [tag |-> "Panic", value |-> 0]
Overflow == [tag |-> "Overflow", value |-> 0]

\* (f_ip1 + f_i) * ((t_ip1 - t_i) as f64) for the 1-based entries i, i + 1
trapezoid(entries, i) ==
    (to_f64(entries[i + 1].value) + to_f64(entries[i].value))
        * (entries[i + 1].system_time - entries[i].system_time)

\* for i in 1..(n - 1) { s = s + ... }, from the 0-based index i on
RECURSIVE integrate_loop(_, _, _)
integrate_loop(entries, i, s) ==
    IF i >= Len(entries) - 1 THEN SomeValue(s \div Halves)
    ELSE IF entries[i + 2].system_time < entries[i + 1].system_time THEN Overflow
    ELSE integrate_loop(entries, i + 1, s + trapezoid(entries, i + 1))

\* a variant that returns the sum without the factor 0.5
integrate_without_halving(s) ==
    IF is_empty(s) THEN NoValue
    ELSE IF Len(s.data) < 2 THEN PanicValue
    ELSE IF s.data[2].system_time < s.data[1].system_time THEN Overflow
    ELSE SomeValue(integrate_loop(s.data, 1, trapezoid(s.data, 1)).value * Halves)

\* TrapezoidalIntegral::integrate; entries[1] of a single entry is out of
\* bounds and panics.
integrate(s) ==
    IF is_empty(s) THEN NoValue
    ELSE IF Len(s.data) < 2 THEN PanicValue
    ELSE IF s.data[2].system_time < s.data[1].system_time THEN Overflow
    ELSE integrate_loop(s.data, 1, trapezoid(s.data, 1))

\* the series of test_statistics: times 0, 10, 20, 30, 40 with values 0..4
RampTimes == <<0, 10, 20, 30, 40>>

RECURSIVE RampUpTo(_)
RampUpTo(n) ==
    IF n = 0 THEN TimeSeriesNew(10)
    ELSE insert_value_at_time(RampUpTo(n - 1), RampTimes[n], n - 1)

Ramp == RampUpTo(Len(RampTimes))

\* A series under statistics: a fresh one, or the ramp of the test.
InitStats ==
    /\ time_series \in {TimeSeriesNew(MaxSamples), Ramp}
    /\ time_series_cache_size = MaxSamples
    /\ data_loss_threshold = 0
    /\ files = {}
    /\ now = 0
    /\ inserted = 0
    /\ panicked = FALSE
    /\ last = NoCall
    /\ tasks = ServerIdle

StatsInsert(time, value) ==
    /\ ~panicked
    /\ Len(time_series.data) < MaxSamples
    /\ time_series' = insert_value_at_time(time_series, time, value)
    /\ last' = [op |-> "insert_value_at_time", a |-> time, b |-> value,
                res |-> NoValue, pre |-> time_series, pre_files |-> files, writes |-> <<>>]
    /\ UNCHANGED <<time_series_cache_size, data_loss_threshold, files, now,
                   inserted, panicked, tasks>>

Integrate ==
    /\ ~panicked
    /\ last' = [op |-> "integrate", a |-> 0, b |-> 0,
                res |-> integrate(time_series),
                pre |-> time_series, pre_files |-> files, writes |-> <<>>]
    /\ panicked' = (last'.res.tag = "Panic")
    /\ UNCHANGED <<time_series, time_series_cache_size, data_loss_threshold,
                   files, now, inserted, tasks>>

NextStats ==
    \/ \E time \in 0..MaxStatTime, value \in 0..MaxValue : StatsInsert(time, value)
    \/ Integrate

SpecStats == InitStats /\ [][NextStats]_vars

\* The caller-supplied comparisons: the natural order of the samples, its
\* reverse, and an order that compares the halves of the samples, under
\* which two different samples may be equal.
Orders == {"natural", "reversed", "coarse"}

order_key(order, v) ==
    IF order = "natural" THEN v
    ELSE IF order = "reversed" THEN 0 - v
    ELSE v \div Halves

\* f(&x, &y): Ordering
compare(order, x, y) ==
    IF order_key(order, x) < order_key(order, y) THEN "Less"
    ELSE IF order_key(order, x) > order_key(order, y) THEN "Greater"
    ELSE "Equal"

\* get_current_values_without_time
values_without_time(s) == [i \in 1..Len(s.data) |-> s.data[i].value]

\* Iterator::min_by: reduce(|x, y| match f(&x, &y) { Greater => y, _ => x })
RECURSIVE iter_min_by(_, _, _)
iter_min_by(order, x, rest) ==
    IF rest = <<>> THEN x
    ELSE iter_min_by(order,
                     IF compare(order, x, Head(rest)) = "Greater" THEN Head(rest) ELSE x,
                     Tail(rest))

\* Iterator::max_by: reduce(|x, y| match f(&x, &y) { Greater => x, _ => y })
RECURSIVE iter_max_by(_, _, _)
iter_max_by(order, x, rest) ==
    IF rest = <<>> THEN x
    ELSE iter_max_by(order,
                     IF compare(order, x, Head(rest)) = "Greater" THEN x ELSE Head(rest),
                     Tail(rest))

\* MinMaxOfSeries::min_by
min_by(s, order) ==
    IF values_without_time(s) = <<>> THEN NoValue
    ELSE SomeValue(iter_min_by(order, Head(values_without_time(s)),
                               Tail(values_without_time(s))))

\* a variant that returns the last sample
max_by_last(s, order) ==
    IF values_without_time(s) = <<>> THEN NoValue
    ELSE SomeValue(values_without_time(s)[Len(s.data)])

\* MinMaxOfSeries::max_by
max_by(s, order) ==
    IF values_without_time(s) = <<>> THEN NoValue
    ELSE SomeValue(iter_max_by(order, Head(values_without_time(s)),
                               Tail(values_without_time(s))))

MinBy(order) ==
    /\ ~panicked
    /\ last' = [op |-> "min_by", a |-> 0, b |-> 0, res |-> min_by(time_series, order),
                pre |-> time_series, pre_files |-> files, writes |-> <<>>, order |-> order]
    /\ UNCHANGED <<time_series, time_series_cache_size, data_loss_threshold,
                   files, now, inserted, panicked, tasks>>

MaxBy(order) ==
    /\ ~panicked
    /\ last' = [op |-> "max_by", a |-> 0, b |-> 0, res |-> max_by(time_series, order),
                pre |-> time_series, pre_files |-> files, writes |-> <<>>, order |-> order]
    /\ UNCHANGED <<time_series, time_series_cache_size, data_loss_threshold,
                   files, now, inserted, panicked, tasks>>

NextMinMax ==
    \/ \E time \in 0..MaxStatTime, value \in 0..MaxValue : StatsInsert(time, value)
    \/ \E order \in Orders : MinBy(order)
    \/ \E order \in Orders : MaxBy(order)

SpecMinMax == InitStats /\ [][NextMinMax]_vars

(***************************************************************************)
(* Encoding and decoding a series: entries with finite and non-finite      *)
(* samples are inserted, and the series is encoded at some compression     *)
(* level and decoded again.                                                *)
(***************************************************************************)
MaxLevel == 3           \* compression levels are drawn from 0..MaxLevel

CodecInsert(time, value) ==
    /\ Len(time_series.data) < MaxSamples
    /\ time_series' = insert_value_at_time(time_series, time, value)
    /\ last' = [op |-> "insert_value_at_time", a |-> time, b |-> value,
                res |-> None, pre |-> time_series, pre_files |-> files, writes |-> <<>>]
    /\ UNCHANGED <<time_series_cache_size, data_loss_threshold, files, now,
                   inserted, panicked, tasks>>

\* from_compressed_json(&s.to_compressed_json(level)?)
RoundTrip(level) ==
    /\ last' = [op |-> "round_trip", a |-> level, b |-> 0,
                res |-> from_compressed_json(to_compressed_json(time_series, level)),
                pre |-> time_series, pre_files |-> files, writes |-> <<>>]
    /\ UNCHANGED <<time_series, time_series_cache_size, data_loss_threshold,
                   files, now, inserted, panicked, tasks>>

NextCodec ==
    \/ \E time \in 0..MaxStatTime, value \in (0..MaxValue) \cup {Infinity} :
          CodecInsert(time, value)
    \/ \E level \in 0..MaxLevel : RoundTrip(level)

SpecCodec == InitStats /\ [][NextCodec]_vars

(***************************************************************************)
(* The server (main.rs): one store behind a tokio RwLock, shared by the    *)
(* ingestion task, the query handlers and the shutdown future.  A guard    *)
(* is held from the step that acquires it to the step that ends the        *)
(* function.  insert_value_at_current_time is taken in its three steps:    *)
(* the entry is pushed, the full buffer is exported, the buffer is reset.  *)
(* A run is followed up to the first panic or the exit of the process.     *)
(***************************************************************************)
\* RwLock::write().await returns when nobody holds the lock
write_lock_free(lock) == lock.writer = "none" /\ lock.readers = {}

\* a variant that hands out a read guard whoever holds the lock
read_lock_free_always(lock) == TRUE

\* RwLock::read().await returns when no writer holds the lock
read_lock_free(lock) == lock.writer = "none"

\* the lower bounds the handlers query with; the upper bound is past the clock
ServerQueryStarts == {StartClock - 1, StartClock}

Running == ~panicked /\ tasks.shutdown # "exited"

\* fetch_and_write_values_to_db: pause.tick().await lets the interval pass
\* (the wall clock advances up to MaxClock), fetch_power_values(..) is Ok
WriterFetch ==
    /\ Running
    /\ tasks.writer = "sleeping"
    /\ inserted < MaxInserts
    /\ now' = IF now < MaxClock THEN now + 1 ELSE now
    /\ tasks' = [tasks EXCEPT !.writer = "waiting"]
    /\ UNCHANGED <<time_series, time_series_cache_size, data_loss_threshold,
                   files, inserted, panicked, last>>

\* let mut sunny_db = db_lock.write().await
WriterAcquire ==
    /\ Running
    /\ tasks.writer = "waiting"
    /\ write_lock_free(tasks.lock)
    /\ tasks' = [tasks EXCEPT !.writer = "locked", !.lock.writer = "ingest"]
    /\ UNCHANGED <<time_series, time_series_cache_size, data_loss_threshold,
                   files, now, inserted, panicked, last>>

\* self.time_series.insert_value_at_current_time(value)
WriterPush ==
    /\ Running
    /\ tasks.writer = "locked"
    /\ time_series' = insert_value_at_time(time_series, now, inserted + 1)
    /\ inserted' = inserted + 1
    /\ tasks' = [tasks EXCEPT !.writer = "pushed"]
    /\ UNCHANGED <<time_series_cache_size, data_loss_threshold, files, now,
                   panicked, last>>

\* dump_time_series_if_full, buffer full: self.export_time_series_to_file()
WriterExport ==
    /\ Running
    /\ tasks.writer = "pushed"
    /\ Len(time_series.data) >= time_series_cache_size
    /\ files' = export_time_series_to_file(time_series, files).dir
    /\ panicked' = export_time_series_to_file(time_series, files).panic
    /\ tasks' = [tasks EXCEPT !.writer = "exported"]
    /\ UNCHANGED <<time_series, time_series_cache_size, data_loss_threshold,
                   now, inserted, last>>

\* dump_time_series_if_full, buffer full: self.time_series = TimeSeries::new(..);
\* the guard is dropped at the end of the match arm
WriterReset ==
    /\ Running
    /\ tasks.writer = "exported"
    /\ time_series' = TimeSeriesNew(time_series_cache_size)
    /\ tasks' = [tasks EXCEPT !.writer = "sleeping", !.lock.writer = "none"]
    /\ UNCHANGED <<time_series_cache_size, data_loss_threshold, files, now,
                   inserted, panicked, last>>

\* dump_time_series_if_full, buffer not full; the guard is dropped
WriterKeep ==
    /\ Running
    /\ tasks.writer = "pushed"
    /\ Len(time_series.data) < time_series_cache_size
    /\ tasks' = [tasks EXCEPT !.writer = "sleeping", !.lock.writer = "none"]
    /\ UNCHANGED <<time_series, time_series_cache_size, data_loss_threshold,
                   files, now, inserted, panicked, last>>

\* a request for /values/:start_time/:end_time arrives; axum accepts requests
\* until the shutdown future has completed
ReaderRequest(r) ==
    /\ Running
    /\ tasks.readers[r] = "idle"
    /\ tasks.shutdown \in {"running", "signalled", "flushing"}
    /\ tasks' = [tasks EXCEPT !.readers[r] = "waiting"]
    /\ UNCHANGED <<time_series, time_series_cache_size, data_loss_threshold,
                   files, now, inserted, panicked, last>>

\* let reader = db_read_lock.read().await
ReaderAcquire(r) ==
    /\ Running
    /\ tasks.readers[r] = "waiting"
    /\ read_lock_free(tasks.lock)
    /\ tasks' = [tasks EXCEPT !.readers[r] = "reading",
                              !.lock.readers = @ \cup {r}]
    /\ UNCHANGED <<time_series, time_series_cache_size, data_loss_threshold,
                   files, now, inserted, panicked, last>>

\* reader.get_values_in_range(start_time, end_time); the guard is dropped when
\* the handler returns.  The call records what the ingestion task was doing.
ReaderQuery(r, start_time, end_time) ==
    /\ Running
    /\ tasks.readers[r] = "reading"
    /\ last' = [op |-> "get_values_in_range", a |-> start_time, b |-> end_time,
                res |-> get_values_in_range(time_series, files, start_time, end_time),
                pre |-> time_series, pre_files |-> files, writes |-> <<>>,
                writer |-> tasks.writer]
    /\ panicked' = (last'.res.tag = "Panic")
    /\ tasks' = [tasks EXCEPT !.readers[r] = "idle",
                              !.lock.readers = @ \ {r}]
    /\ UNCHANGED <<time_series, time_series_cache_size, data_loss_threshold,
                   files, now, inserted>>

\* shutdown_signal: ctrl_c or terminate completes
ShutdownSignal ==
    /\ Running
    /\ tasks.shutdown = "running"
    /\ tasks' = [tasks EXCEPT !.shutdown = "signalled"]
    /\ UNCHANGED <<time_series, time_series_cache_size, data_loss_threshold,
                   files, now, inserted, panicked, last>>

\* let mut write_lock = db_shutdown_lock.write().await
ShutdownAcquire ==
    /\ Running
    /\ tasks.shutdown = "signalled"
    /\ write_lock_free(tasks.lock)
    /\ tasks' = [tasks EXCEPT !.shutdown = "flushing", !.lock.writer = "shutdown"]
    /\ UNCHANGED <<time_series, time_series_cache_size, data_loss_threshold,
                   files, now, inserted, panicked, last>>

\* write_lock.lossy_persist(); the guard is dropped and the future completes
ShutdownFlush ==
    /\ Running
    /\ tasks.shutdown = "flushing"
    /\ time_series' = lossy_persist(time_series, files, data_loss_threshold).buffer
    /\ files' = lossy_persist(time_series, files, data_loss_threshold).dir
    /\ panicked' = lossy_persist(time_series, files, data_loss_threshold).panic
    /\ tasks' = [tasks EXCEPT !.shutdown = "flushed", !.lock.writer = "none"]
    /\ UNCHANGED <<time_series_cache_size, data_loss_threshold, now, inserted, last>>

\* axum::serve returns once the requests in flight are served, main returns
\* and the runtime drops the ingestion task where it awaits
ServerExit ==
    /\ Running
    /\ tasks.shutdown = "flushed"
    /\ \A r \in Readers : tasks.readers[r] = "idle"
    /\ tasks.writer \in {"sleeping", "waiting"}
    /\ tasks' = [tasks EXCEPT !.shutdown = "exited"]
    /\ UNCHANGED <<time_series, time_series_cache_size, data_loss_threshold,
                   files, now, inserted, panicked, last>>

NextServer ==
    \/ WriterFetch
    \/ WriterAcquire
    \/ WriterPush
    \/ WriterExport
    \/ WriterReset
    \/ WriterKeep
    \/ \E r \in Readers : ReaderRequest(r)
    \/ \E r \in Readers : ReaderAcquire(r)
    \/ \E r \in Readers, start_time \in ServerQueryStarts :
          ReaderQuery(r, start_time, MaxClock + 1)
    \/ ShutdownSignal
    \/ ShutdownAcquire
    \/ ShutdownFlush
    \/ ServerExit

SpecServer == Init /\ [][NextServer]_vars

(***************************************************************************)
(* find_persisted_segment_index on its own: the segment lists are the      *)
(* lists of well-formed (start <= end), pairwise disjoint segments in      *)
(* ascending order with timestamps in 0..MaxSegTime, each given by the     *)
(* set of its cuts: a segment starts at a cut and ends before the next.    *)
(* One call is made per run.                                               *)
(***************************************************************************)
MaxSegTime == 6

MinOf(S) == CHOOSE x \in S : \A y \in S : x <= y

RECURSIVE CutsToSegments(_)
CutsToSegments(cuts) ==
    IF Cardinality(cuts) < 2 THEN <<>>
    ELSE <<<<MinOf(cuts), MinOf(cuts \ {MinOf(cuts)}) - 1>>>>
         \o CutsToSegments((cuts \ {MinOf(cuts)}) \ {MinOf(cuts \ {MinOf(cuts)})})

SegmentLists ==
    {CutsToSegments(cuts) : cuts \in {S \in SUBSET (0..(MaxSegTime + 1)) : Cardinality(S) % 2 = 0}}

FindPersistedSegmentIndex(segments, start_time, end_time) ==
    /\ last.op = "none"
    /\ start_time <= end_time
    /\ last' = [op |-> "find_persisted_segment_index", a |-> start_time, b |-> end_time,
                res |-> None, pre |-> TimeSeriesEmpty, pre_files |-> {}, writes |-> <<>>,
                segments |-> segments,
                found |-> find_persisted_segment_index(segments, start_time, end_time)]
    /\ UNCHANGED <<time_series, time_series_cache_size, data_loss_threshold,
                   files, now, inserted, panicked, tasks>>

NextSegments ==
    \E segments \in SegmentLists, start_time \in 0..MaxSegTime, end_time \in 0..MaxSegTime :
        FindPersistedSegmentIndex(segments, start_time, end_time)

SpecSegments == InitSeries /\ [][NextSegments]_vars

(***************************************************************************)
(* Helpers for stating properties.                                         *)
(***************************************************************************)
IsSorted(data) ==
    \A i \in 1..Len(data) - 1 : data[i].system_time <= data[i + 1].system_time

\* the entries of `data` whose timestamp lies in [lo, hi], in order
RECURSIVE Within(_, _, _)
Within(data, lo, hi) ==
    IF data = <<>> THEN <<>>
    ELSE LET h == Head(data)
         IN  (IF lo <= h.system_time /\ h.system_time <= hi THEN <<h>> ELSE <<>>)
             \o Within(Tail(data), lo, hi)

ResultData(res) == IF res.tag = "Some" THEN res.ts.data ELSE <<>>

\* C1: after each insert, at whatever timestamp, the entries of the series
\* are sorted non-decreasing by timestamp.
C1_SortedAfterInsert == IsSorted(time_series.data)

\* C2: on a sorted series and for start <= end, range(start, end) returns
\* exactly the entries with start <= t <= end, none omitted and none added.
C2_RangeExact ==
    (/\ last.op = "series_get_values_in_range"
     /\ IsSorted(last.pre.data)
     /\ last.a <= last.b)
    => /\ last.res.tag # "Panic"
       /\ ResultData(last.res) = Within(last.pre.data, last.a, last.b)

Values(data) == {data[i].value : i \in 1..Len(data)}

\* every sample of `data` occurs in it once
NoDuplicates(data) == Cardinality(Values(data)) = Len(data)

InsertReturned == last.op = "insert_value_at_current_time" /\ ~panicked

\* C3: on a store holding persisted segments, a non-empty result of
\* range_query(start, end) starts at or after start and ends at or before end.
C3_ResultWithinQuery ==
    (/\ last.op = "get_values_in_range"
     /\ last.a <= last.b
     /\ files # {}
     /\ last.res.tag = "Some"
     /\ last.res.ts.data # <<>>)
    => /\ last.res.ts.data[1].system_time >= last.a
       /\ last.res.ts.data[Len(last.res.ts.data)].system_time <= last.b

\* C4: after N*K inserts into a fresh store with flush threshold K (N, K >= 1),
\* all_values returns exactly the N*K inserted samples, each once, in
\* non-decreasing timestamp order.
C4_AllValuesAfterSegments ==
    (/\ last.op = "get_all_values"
     /\ time_series_cache_size >= 1
     /\ inserted >= 1
     /\ inserted % time_series_cache_size = 0)
    => /\ last.res.tag = "Some"
       /\ Len(last.res.ts.data) = inserted
       /\ Values(last.res.ts.data) = 1..inserted
       /\ IsSorted(last.res.ts.data)

\* the entries of all segment files, in the order of their start timestamps
RECURSIVE PersistedEntries(_, _)
PersistedEntries(dir, segments) ==
    IF segments = {} THEN <<>>
    ELSE LET seg == CHOOSE x \in segments :
                       \A y \in segments : x[1] < y[1] \/ (x[1] = y[1] /\ x[2] <= y[2])
         IN  parse_segment_to_timeseries(dir, seg).ts.data
             \o PersistedEntries(dir, segments \ {seg})

SegmentsOf(dir) == {parse_filename_to_times(n) : n \in FileNames(dir)}

\* C5: a query that starts before the non-empty buffer and ends in or after
\* it, on a store with persisted segments, returns the persisted entries in
\* range followed by the buffer entries in range, sorted, each sample once.
C5_MergeWithBuffer ==
    (/\ last.op = "get_values_in_range"
     /\ last.a <= last.b
     /\ files # {}
     /\ time_series.data # <<>>
     /\ last.a < time_series.start_time
     /\ last.b >= time_series.start_time)
    => /\ last.res.tag = "Some"
       /\ last.res.ts.data =
              Within(PersistedEntries(files, SegmentsOf(files)), last.a, last.b)
              \o Within(time_series.data, last.a, last.b)
       /\ IsSorted(last.res.ts.data)
       /\ NoDuplicates(last.res.ts.data)

\* C6: inserting exactly flush_threshold samples into a fresh store leaves
\* exactly one segment file and an empty buffer.
C6_FlushAtThreshold ==
    (/\ InsertReturned
     /\ time_series_cache_size >= 1
     /\ inserted = time_series_cache_size)
    => /\ Cardinality(files) = 1
       /\ time_series.data = <<>>

C6_Witness ==
    /\ InsertReturned
    /\ time_series_cache_size >= 2
    /\ inserted = time_series_cache_size
    /\ Cardinality(files) = 1

\* C7: after N*K inserts into a fresh store with flush threshold K (N >= 1),
\* the buffer holds exactly K entries.
C7_LastSegmentInMemory ==
    (/\ InsertReturned
     /\ time_series_cache_size >= 1
     /\ inserted >= 1
     /\ inserted % time_series_cache_size = 0)
    => Len(time_series.data) = time_series_cache_size

C9_LossThreshold ==
    last.op = "lossy_persist" =>
        /\ Len(last.pre.data) <= data_loss_threshold =>
               /\ last.writes = <<>>
               /\ files = last.pre_files
        /\ Len(last.pre.data) > data_loss_threshold =>
               /\ Len(last.writes) = 1
               /\ {f \in files : f.name # last.writes[1]}
                      = {f \in last.pre_files : f.name # last.writes[1]}
               /\ last.writes[1] \in FileNames(files)
               /\ from_compressed_json(FileBytes(files, last.writes[1])).ts = last.pre

C9_Witness ==
    /\ last.op = "lossy_persist"
    /\ Len(last.pre.data) > data_loss_threshold
    /\ data_loss_threshold >= 1
    /\ Cardinality(files) = Cardinality(last.pre_files) + 1

\* C10: flush_lossy never changes the buffer, whether it writes a file or not.
C10_LossyKeepsBuffer ==
    last.op = "lossy_persist" => time_series = last.pre

C10_Witness ==
    /\ last.op = "lossy_persist"
    /\ last.writes # <<>>
    /\ time_series.data # <<>>

\* the files of the directory whose names parse as segment names
SegmentFiles(dir) == {f \in dir : parse_filename_to_times(f.name) # <<>>}

\* two closed intervals share a timestamp
Overlap(x, y) == x[1] <= y[2] /\ y[1] <= x[2]

\* C11: no two segment files of the data directory cover overlapping
\* [start, end] intervals.
C11_NoOverlap ==
    \A f \in SegmentFiles(files), g \in SegmentFiles(files) :
        f.name # g.name =>
            ~Overlap(parse_filename_to_times(f.name), parse_filename_to_times(g.name))

\* C12: a step never rewrites the contents of an existing segment file and
\* never deletes it.
C12_SegmentsImmutable ==
    [][\A f \in SegmentFiles(files) : f \in files']_vars

MinTimestamp(data) ==
    CHOOSE t \in {data[i].system_time : i \in DOMAIN data} :
        \A i \in DOMAIN data : t <= data[i].system_time

MaxTimestamp(data) ==
    CHOOSE t \in {data[i].system_time : i \in DOMAIN data} :
        \A i \in DOMAIN data : t >= data[i].system_time

\* C13: every segment file is named "<start>-<end>" where start and end are
\* the minimum and the maximum timestamp of the entries stored in the file.
C13_NameIsMinMax ==
    \A f \in files :
        /\ from_compressed_json(f.bytes).tag = "Ok"
        /\ from_compressed_json(f.bytes).ts.data # <<>>
        /\ f.name = file_name_of(MinTimestamp(from_compressed_json(f.bytes).ts.data),
                                 MaxTimestamp(from_compressed_json(f.bytes).ts.data))

\* a flush has written a file whose first entry is not its earliest
C13_Witness ==
    /\ last.writes # <<>>
    /\ \E f \in files :
          /\ f.name = last.writes[1]
          /\ Len(from_compressed_json(f.bytes).ts.data) >= 2
          /\ from_compressed_json(f.bytes).ts.data[1].system_time
                > MinTimestamp(from_compressed_json(f.bytes).ts.data)

\* the cached bounds of a series are the extremes of its entries
CacheMatches(s) ==
    IF s.data = <<>>
    THEN s.start_time = NoTime /\ s.end_time = NoTime
    ELSE s.start_time = MinTimestamp(s.data) /\ s.end_time = MaxTimestamp(s.data)

\* C14: after any sequence of insert, append and range operations, the
\* cached start and end of every series equal the minimum and the maximum
\* timestamp of its entries, and both are None exactly when it is empty.
C14_CachedBounds ==
    /\ CacheMatches(time_series)
    /\ last.res.tag = "Some" => CacheMatches(last.res.ts)

\* C15: append aborts whenever the receiver's cached end is greater than the
\* argument's cached start, both being non-empty.
C15_AppendAborts ==
    (/\ last.op = "append"
     /\ ~is_empty(last.pre)
     /\ ~is_empty(time_series)
     /\ last.pre.end_time > time_series.start_time)
        => last.res.tag = "Panic"

\* C16: with an empty buffer and at least one persisted segment, a query
\* lying entirely before the first segment or entirely after the last one
\* returns Some(series) with series.is_empty().
C16_OutsideIsEmpty ==
    (/\ last.op = "get_values_in_range"
     /\ last.pre.data = <<>>
     /\ SegmentFiles(files) # {}
     /\ last.a <= last.b
     /\ \/ \A seg \in SegmentsOf(files) : last.b < seg[1]
        \/ \A seg \in SegmentsOf(files) : last.a > seg[2])
        => (last.res.tag = "Some" /\ is_empty(last.res.ts))

\* C17: a file whose name does not parse into two integers is skipped: every
\* range query returns what it returns on the directory without that file,
\* and does not abort because of it.
C17_ForeignFileSkipped ==
    last.op = "get_values_in_range"
        => last.res = get_values_in_range(last.pre, SegmentFiles(files), last.a, last.b)

\* a call that writes: insert (through a triggered flush) or flush_lossy
IsWrite(call) == call.op \in {"insert_value_at_current_time", "lossy_persist"}

\* C19: whenever the file write of a flush fails, the operation aborts the
\* process; for a flush triggered by insert and for a write by flush_lossy.
C19_WriteFailureAborts ==
    (IsWrite(last) /\ last.err) => panicked

\* the slice of the segment list that a query over [lo, hi] selects
SliceOf(segments, found) ==
    IF found[1] = NoIndex /\ found[2] = NoIndex THEN <<>>
    ELSE SubSeq(segments, unwrap_or(found[1], 0) + 1,
                unwrap_or(found[2], Len(segments) - 1) + 1)

SelectedOf(segments, lo, hi) ==
    SliceOf(segments, find_persisted_segment_index(segments, lo, hi))

SelectedSegments(dir, lo, hi) ==
    SelectedOf(ParseAll(SortedNames(FileNames(dir))), lo, hi)

\* the entries of a list of series, one after the other
RECURSIVE Concatenated(_)
Concatenated(list) ==
    IF list = <<>> THEN <<>> ELSE Head(list).data \o Concatenated(Tail(list))

\* a selected segment of the directory fails to decode
SelectedFails(dir, lo, hi) ==
    \E i \in DOMAIN SelectedSegments(dir, lo, hi) :
        parse_segment_to_timeseries(dir, SelectedSegments(dir, lo, hi)[i]).tag = "Err"

\* C18: when a selected segment file fails to open or decode, the query does
\* not abort, and returns the entries of the remaining selected segments
\* that lie within the query range, in segment order.
C18_CorruptSegmentSkipped ==
    (/\ last.op = "get_values_in_range"
     /\ last.pre.data = <<>>
     /\ SelectedFails(files, Min2(last.a, last.b), Max2(last.a, last.b)))
        => /\ last.res.tag = "Some"
           /\ last.res.ts.data
                = Within(Concatenated(LoadAll(files,
                             SelectedSegments(files, Min2(last.a, last.b), Max2(last.a, last.b)))),
                         Min2(last.a, last.b), Max2(last.a, last.b))

\* the sum of (f_i + f_i+1) * (t_i+1 - t_i) over the consecutive entries
RECURSIVE TrapezoidSum(_)
TrapezoidSum(data) ==
    IF Len(data) < 2 THEN 0
    ELSE (data[1].value + data[2].value) * (data[2].system_time - data[1].system_time)
         + TrapezoidSum(Tail(data))

\* C20: integrate() on two or more entries sorted by time returns
\* 0.5 * sum of (f_i + f_i+1) * (t_i+1 - t_i), and 80 for the five samples
\* at t = 0, 10, 20, 30, 40 with values 0, 1, 2, 3, 4.  (A result is held in
\* halves: x is the integer Halves * x.)
C20_Trapezoid ==
    /\ (last.op = "integrate" /\ Len(last.pre.data) >= 2 /\ IsSorted(last.pre.data))
          => (last.res.tag = "Some" /\ last.res.value = TrapezoidSum(last.pre.data))
    /\ (last.op = "integrate" /\ last.pre = Ramp)
          => (last.res.tag = "Some" /\ last.res.value = Halves * 80)

\* the ramp of five sorted samples has been integrated
C20_Witness ==
    /\ last.op = "integrate"
    /\ last.pre = Ramp
    /\ IsSorted(last.pre.data)
    /\ last.res.tag = "Some"

\* C21: integrate() returns None, without aborting, on an empty series and
\* on a series with exactly one entry.
C21_IntegrateDegenerate ==
    (last.op = "integrate" /\ Len(last.pre.data) <= 1)
        => (last.res.tag = "None" /\ ~panicked)

\* C22: max_by and min_by return None on an empty series; on a non-empty
\* series they return a sample of the series that no other sample exceeds
\* (max_by) or precedes (min_by) under the caller's order.
C22_MinMax ==
    /\ (last.op \in {"min_by", "max_by"} /\ last.pre.data = <<>>)
          => last.res.tag = "None"
    /\ (last.op \in {"min_by", "max_by"} /\ last.pre.data # <<>>)
          => (last.res.tag = "Some" /\ last.res.value \in Values(last.pre.data))
    /\ (last.op = "max_by" /\ last.pre.data # <<>>)
          => \A v \in Values(last.pre.data) :
                 compare(last.order, v, last.res.value) # "Greater"
    /\ (last.op = "min_by" /\ last.pre.data # <<>>)
          => \A v \in Values(last.pre.data) :
                 compare(last.order, v, last.res.value) # "Less"

\* max_by has picked a sample that is not the last one of the series
C22_Witness ==
    /\ last.op = "max_by"
    /\ Len(last.pre.data) >= 2
    /\ last.res.tag = "Some"
    /\ compare(last.order, last.pre.data[Len(last.pre.data)].value, last.res.value) = "Less"

\* C23: for any non-empty series and any compression level, decoding the
\* encoded bytes yields an equal series: the same entries in the same order
\* and the same cached start and end.
C23_RoundTrip ==
    (last.op = "round_trip" /\ last.pre.data # <<>>)
        => (last.res.tag = "Ok" /\ last.res.ts = last.pre)

\* C24: range_query is symmetric in its bounds: in every store state,
\* range_query(start, end) returns what range_query(end, start) returns.
C24_Symmetric ==
    last.op = "get_values_in_range"
        => last.res = get_values_in_range(last.pre, files, last.b, last.a)

\* a query with reversed bounds has returned entries
C24_Witness ==
    /\ last.op = "get_values_in_range"
    /\ last.a > last.b
    /\ last.res.tag = "Some"
    /\ last.res.ts.data # <<>>
    /\ files # {}

\* the ingestion task is inside insert_value_at_current_time
InsertInProgress == tasks.writer \in {"locked", "pushed", "exported"}

\* C25: no query executes while an insert, with the flush it triggers, is in
\* progress: no handler holds the lock then, and no query has observed the
\* store between the writing of the segment file and the reset of the buffer.
C25_QueriesExcludeInsert ==
    /\ InsertInProgress => tasks.lock.readers = {}
    /\ \A r \in Readers : tasks.readers[r] = "reading" => ~InsertInProgress
    /\ last.op = "get_values_in_range" => last.writer \in {"sleeping", "waiting"}

\* a handler waits for the lock while the segment file is written and the
\* buffer is not yet reset
C25_Witness ==
    /\ tasks.writer = "exported"
    /\ \E r \in Readers : tasks.readers[r] = "waiting"
    /\ time_series.data # <<>>
    /\ files # {}

\* C26: the shutdown flush is the final mutation of the store: once it has
\* run, no step changes the buffer or the data directory.
C26_FlushIsFinal ==
    [][tasks.shutdown \in {"flushed", "exited"}
          => (time_series' = time_series /\ files' = files)]_vars

\* C27: when the buffer is non-empty and its cached start is <= the lower
\* bound of the query, the query returns exactly the buffer's own range and
\* its result does not depend on the data directory: it is the same with the
\* directory as it is, with any part of it, and with every file unreadable.
C27_BufferShortcut ==
    (/\ last.op = "get_values_in_range"
     /\ last.pre.data # <<>>
     /\ last.pre.start_time # NoTime
     /\ last.pre.start_time <= Min2(last.a, last.b))
    => /\ last.res = series_get_values_in_range(last.pre, Min2(last.a, last.b),
                                                 Max2(last.a, last.b))
       /\ \A dir \in SUBSET last.pre_files :
             get_values_in_range(last.pre, dir, last.a, last.b) = last.res
       /\ get_values_in_range(last.pre,
             {[name |-> f.name, bytes |-> <<>>] : f \in last.pre_files},
             last.a, last.b) = last.res

\* the shortcut answered a query with entries while segments were on disk
C27_Witness ==
    /\ last.op = "get_values_in_range"
    /\ last.pre.data # <<>>
    /\ last.pre.start_time # NoTime
    /\ last.pre.start_time <= Min2(last.a, last.b)
    /\ last.pre_files # {}
    /\ last.res.tag = "Some"
    /\ last.res.ts.data # <<>>

\* the 0-based index of the segment containing t, or of the later one of the
\* two adjacent segments t lies strictly between
ContainingOrLater(segments, t) ==
    IF \E i \in DOMAIN segments : segments[i][1] <= t /\ t <= segments[i][2]
    THEN (CHOOSE i \in DOMAIN segments : segments[i][1] <= t /\ t <= segments[i][2]) - 1
    ELSE (CHOOSE i \in DOMAIN segments :
             i > 1 /\ segments[i - 1][2] < t /\ t < segments[i][1]) - 1

SortedDisjoint(segments) ==
    \A i \in 1..(Len(segments) - 1) :
        /\ segments[i][1] < segments[i + 1][1]
        /\ segments[i][2] < segments[i + 1][1]

InSpan(segments, t) == segments[1][1] <= t /\ t <= segments[Len(segments)][2]

\* C28: for two or more segments, sorted by start and pairwise disjoint, and a
\* query bound between the first start and the last end, the index chosen for
\* the bound is that of the segment containing it, or of the later of the two
\* adjacent segments it lies strictly between; for the lower and the upper bound.
C28_SegmentIndex ==
    (/\ last.op = "find_persisted_segment_index"
     /\ Len(last.segments) >= 2
     /\ SortedDisjoint(last.segments))
    => /\ InSpan(last.segments, last.a)
             => last.found[1] = ContainingOrLater(last.segments, last.a)
       /\ InSpan(last.segments, last.b)
             => last.found[2] = ContainingOrLater(last.segments, last.b)

\* the lower bound lies in a gap and the upper bound in a later segment
C28_Witness ==
    /\ last.op = "find_persisted_segment_index"
    /\ Len(last.segments) >= 3
    /\ InSpan(last.segments, last.a)
    /\ InSpan(last.segments, last.b)
    /\ \A i \in DOMAIN last.segments :
          ~(last.segments[i][1] <= last.a /\ last.a <= last.segments[i][2])
    /\ last.found[1] = 1
    /\ last.found[2] = 2

\* the only file of a directory
OnlyFile(dir) == CHOOSE f \in dir : TRUE

\* C29: with an empty buffer and exactly one persisted segment, a query whose
\* bounds both lie within that segment's [start, end] returns the entries of
\* the segment within the bounds, not an absent result.
C29_SingleSegmentQuery ==
    (/\ last.op = "get_values_in_range"
     /\ last.pre.data = <<>>
     /\ Cardinality(last.pre_files) = 1
     /\ parse_filename_to_times(OnlyFile(last.pre_files).name) # <<>>
     /\ from_compressed_json(OnlyFile(last.pre_files).bytes).tag = "Ok"
     /\ parse_filename_to_times(OnlyFile(last.pre_files).name)[1] <= Min2(last.a, last.b)
     /\ Max2(last.a, last.b) <= parse_filename_to_times(OnlyFile(last.pre_files).name)[2])
    => /\ last.res.tag = "Some"
       /\ last.res.ts.data =
             Within(from_compressed_json(OnlyFile(last.pre_files).bytes).ts.data,
                    Min2(last.a, last.b), Max2(last.a, last.b))

DisjointOnDisk(dir) ==
    \A f \in SegmentFiles(dir), g \in SegmentFiles(dir) :
        f.name # g.name =>
            ~Overlap(parse_filename_to_times(f.name), parse_filename_to_times(g.name))

\* the segments of a directory, in the order in which a query visits them
LoadOrder(dir) == ParseAll(SortedNames(FileNames(dir)))

\* C30: when the segment files on disk are pairwise disjoint in time, a query
\* visits them in ascending order of their numeric start timestamp and does
\* not abort, also when the timestamps differ in their number of digits.
C30_AscendingLoadOrder ==
    (/\ last.op = "get_values_in_range"
     /\ DisjointOnDisk(last.pre_files))
    => /\ \A i \in 1..(Len(LoadOrder(last.pre_files)) - 1) :
             LoadOrder(last.pre_files)[i][1] < LoadOrder(last.pre_files)[i + 1][1]
       /\ last.res.tag # "Panic"

\* C31: an entry inserted at the timestamp of entries already in the series is
\* placed after all of them: among entries with equal timestamps the order in
\* the series is the order of insertion (the samples are numbered as they
\* are inserted).
C31_TiesKeepInsertionOrder ==
    /\ \A i \in DOMAIN time_series.data, j \in DOMAIN time_series.data :
          (i < j /\ time_series.data[i].system_time = time_series.data[j].system_time)
             => time_series.data[i].value < time_series.data[j].value
    /\ (last.op = "insert_value_at_time"
        /\ \E e \in {last.pre.data[i] : i \in DOMAIN last.pre.data} : e.system_time = last.a)
       => \E k \in DOMAIN time_series.data :
             /\ time_series.data[k] = TimeSeriesEntry(last.a, last.b)
             /\ \A i \in DOMAIN time_series.data :
                   (i # k /\ time_series.data[i].system_time = last.a) => i < k

\* the last insert went between two entries at its timestamp and a later one
C31_Witness ==
    /\ last.op = "insert_value_at_time"
    /\ \E k \in DOMAIN time_series.data :
          /\ k > 2
          /\ k < Len(time_series.data)
          /\ time_series.data[k] = TimeSeriesEntry(last.a, last.b)
          /\ time_series.data[k - 1].system_time = last.a
          /\ time_series.data[k - 2].system_time = last.a
          /\ time_series.data[k + 1].system_time > last.a

\* the step is a call of get_values_in_range or get_all_values
QueryStep ==
    /\ last' # last
    /\ last'.op \in {"get_values_in_range", "get_all_values"}

\* C32: the queries are read-only: for every store and every pair of
\* arguments, the buffer's entries and cached bounds and the set and contents
\* of the files of the data directory are the same after the call as before.
C32_QueriesReadOnly ==
    [][QueryStep => (time_series' = time_series /\ files' = files)]_vars

\* a query over a store with entries in the buffer and segments on disk has
\* returned entries of both and left both as they were
C32_Witness ==
    /\ last.op \in {"get_values_in_range", "get_all_values"}
    /\ last.pre.data # <<>>
    /\ last.pre_files # {}
    /\ last.res.tag = "Some"
    /\ Len(last.res.ts.data) > Len(last.pre.data)
    /\ time_series = last.pre
    /\ files = last.pre_files

\* the buffer has entries and both cached timestamps
Exportable(buffer) ==
    buffer.data # <<>> /\ buffer.start_time # NoTime /\ buffer.end_time # NoTime

\* C33: no sequence of inserts, lossy persists and queries on a new store
\* attempts to export an empty buffer, whatever the two thresholds (0
\* included): whenever an insert or a lossy persist meets its threshold the
\* buffer it exports has entries and both timestamps, a query exports
\* nothing, and no writing call ends in the abort of the export.
C33_NeverExportsEmpty ==
    /\ (/\ last.op = "insert_value_at_current_time"
        /\ Len(last.pre.data) + 1 >= time_series_cache_size)
       => Exportable(insert_value_at_time(last.pre, last.a, last.b))
    /\ (/\ last.op = "lossy_persist"
        /\ data_loss_threshold < Len(last.pre.data))
       => Exportable(last.pre)
    /\ last.op \in {"insert_value_at_current_time", "lossy_persist"} => ~panicked
    /\ last.op \in {"get_values_in_range", "get_all_values"} => last.writes = <<>>

\* with both thresholds 0, a lossy persist found the buffer empty after an
\* insert had exported it, and exported nothing
C33_Witness ==
    /\ time_series_cache_size = 0
    /\ data_loss_threshold = 0
    /\ last.op = "lossy_persist"
    /\ last.pre.data = <<>>
    /\ last.pre_files # {}
    /\ last.writes = <<>>
    /\ ~panicked

\* C34: when new() returns, the permission-check file does not exist in the
\* data directory, the buffer is empty, and every segment file that was
\* there before the call is still there with the same contents.
C34_NewLeavesDirectory ==
    (last.op = "new" /\ ~panicked)
    => /\ PermissionCheckName \notin FileNames(files)
       /\ time_series = TimeSeriesNew(time_series_cache_size)
       /\ time_series.data = <<>>
       /\ SegmentFiles(last.pre_files) \subseteq files

\* new has returned over a directory that held two segments and a stale
\* permission-check file
C34_Witness ==
    /\ last.op = "new"
    /\ ~panicked
    /\ PermissionCheckName \in FileNames(last.pre_files)
    /\ Cardinality(SegmentFiles(last.pre_files)) = 2
    /\ Cardinality(SegmentFiles(files)) = 2

====
